---- MODULE Spec2Model ----
(***************************************************************************)
(* Game sessions and statistics of the chess bot (src/db/db_funcs.py).     *)
(*                                                                         *)
(* The storage holds the tables users, settings and games.  The functions  *)
(* of db_funcs.py are coroutines of one asyncio event loop: a coroutine    *)
(* runs without interruption until it suspends on an external service      *)
(* (get_engine_evaluation, get_defaults, get_limits).  Awaiting another    *)
(* coroutine of this module (create_new_game awaiting stop_current_game)   *)
(* runs it inline and suspends only where that coroutine suspends.  Every  *)
(* action below is one such uninterrupted run: from a call or a resumption *)
(* to the next suspension or to the return.                                *)
(***************************************************************************)
EXTENDS Integers, Sequences, FiniteSets, TLC

VARIABLES
    users,      \* table users: user_id -> row (created = the row exists)
    settings,   \* table settings: user_id -> row (unique per user_id)
    games,      \* table games: sequence of rows, the index is the row id
    calls,      \* per caller: the coroutine suspended at an await, if any
    ret,        \* what the step just taken handed back to its caller
    created_time, \* column created_time of table users: user_id -> time
    cache,      \* the entry of get_global_statistic in the cache, if any
    stat        \* per caller: its call of get_global_statistic

\* The variables of the leaderboard, which the other coroutines leave alone
board_vars == <<created_time, cache, stat>>

vars == <<users, settings, games, calls, ret, created_time, cache, stat>>

----------------------------------------------------------------------------
(* Bounds and input sets *)

MaxGames == 2                   \* Game rows ever inserted

None == "None"
Users == {1, 2}                 \* user ids
Procs == {1, 2}                 \* concurrent callers (handlers in flight)
Colours == {"w", "b"}
Orientations == {"w", "b", "x"} \* "x": an orientation that is not a colour
Values == {-7, 0, 5}
EndTypes == {"cp", "checkmate"}

\* EngineEvaluation as returned by get_engine_evaluation
Evaluations ==
    [value : Values, end_type : EndTypes, is_end : BOOLEAN,
     who_win : Colours \cup {None}]

NoEvaluation == [value |-> 0, end_type |-> None, is_end |-> FALSE, who_win |-> None]

\* One evaluation per outcome of a stop that is no resignation: White has
\* mated, mate is announced for Black, the game is undecided
Verdicts ==
    { [value |-> 0, end_type |-> "checkmate", is_end |-> TRUE, who_win |-> "w"],
      [value |-> -7, end_type |-> "checkmate", is_end |-> FALSE, who_win |-> None],
      [value |-> 5, end_type |-> "cp", is_end |-> FALSE, who_win |-> None] }

\* The evaluations of the concurrent specification: a decided game and an
\* undecided one.  With both orientations and the resignation of a displaced
\* game every who_win (w, b, None) and every counter is reached.
RaceVerdicts ==
    { [value |-> 0, end_type |-> "checkmate", is_end |-> TRUE, who_win |-> "w"],
      [value |-> 5, end_type |-> "cp", is_end |-> FALSE, who_win |-> None] }

\* The arguments of update_current_game (history and position after a half-move)
Moves == {[prev_moves |-> 1, last_move |-> 1, check |-> "e1", fen |-> 1]}

RaceUsers == {1}
SeqProcs == {1}

----------------------------------------------------------------------------
(* Rows *)

\* User(user_id=..., name=...): counters start at zero
NewUser ==
    [created |-> TRUE, total_games |-> 0, total_wins |-> 0,
     total_defeats |-> 0, total_draws |-> 0]

NoUser ==
    [created |-> FALSE, total_games |-> 0, total_wins |-> 0,
     total_defeats |-> 0, total_draws |-> 0]

\* A user with games on record: total_wins 3, total_defeats 1, total_draws 0
Veteran ==
    [created |-> TRUE, total_games |-> 4, total_wins |-> 3,
     total_defeats |-> 1, total_draws |-> 0]

ParamNames == {"depth", "elo"}

\* A dict over parameter names: its keys and their values (0 where no key is)
Dict(keys, val) ==
    [keys |-> keys, val |-> [k \in ParamNames |-> IF k \in keys THEN val[k] ELSE 0]]

NoParams == Dict({}, [k \in ParamNames |-> 0])

\* The limits response: for each key a minimum and a maximum
Limits(keys, min, max) ==
    [keys |-> keys,
     min |-> [k \in ParamNames |-> IF k \in keys THEN min[k] ELSE 0],
     max |-> [k \in ParamNames |-> IF k \in keys THEN max[k] ELSE 0]]

\* The calls of update_settings and the answers of get_limits in the
\* specifications of the game sessions
SessionParams == {Dict({"depth"}, [k \in ParamNames |-> 9])}
SessionLimits ==
    {Limits({"depth"}, [k \in ParamNames |-> 1], [k \in ParamNames |-> 5])}

\* Settings(user_id=...) after async_init: the defaults of the limits service
Defaults == [k \in ParamNames |-> 3]

NewSettings == [created |-> TRUE, values |-> Defaults]

NoSettings == [created |-> FALSE, values |-> Defaults]

\* Game(user_id=user_id, orientation=orientation, is_active=True)
NewGame(user_id, orientation) ==
    [user_id |-> user_id, orientation |-> orientation, is_active |-> TRUE,
     who_win |-> None, prev_moves |-> 0, last_move |-> None,
     check |-> None, fen |-> 0]

\* What get_current_game hands back: the row as it was read (id 0: no row).
\* Of the row read only the orientation is used afterwards; its fen goes to the
\* evaluation service, whose answer is any evaluation.
NoGame == [id |-> 0, orientation |-> None]

ActiveIds(gs, user_id) ==
    {i \in DOMAIN gs : gs[i].user_id = user_id /\ gs[i].is_active}

\* A faulty variant: the select without the is_active condition
get_any_game(gs, user_id) ==
    LET ids == {i \in DOMAIN gs : gs[i].user_id = user_id} IN
    IF ids = {} THEN NoGame
    ELSE LET i == CHOOSE i \in ids : \A j \in ids : i <= j
         IN  [id |-> i, orientation |-> gs[i].orientation]

\* select(Game).where(user_id, is_active): scalar() is the first row or None
get_current_game(gs, user_id) ==
    IF ActiveIds(gs, user_id) = {} THEN NoGame
    ELSE LET i == CHOOSE i \in ActiveIds(gs, user_id) :
                    \A j \in ActiveIds(gs, user_id) : i <= j
         IN  [id |-> i, orientation |-> gs[i].orientation]

\* select(User).where(user_id): the row or None
get_user(us, user_id) == us[user_id]

----------------------------------------------------------------------------
(* stop_current_game: outcome resolution and the storage transaction *)

\* Faulty variants of the resolution: is_resign ignored; the sign of a
\* checkmate value consulted before is_end; a value of zero given to White
ResolveIgnoringResign(game, evaluation, is_resign) ==
    IF evaluation.is_end
    THEN evaluation.who_win
    ELSE IF evaluation.end_type = "checkmate"
    THEN (IF evaluation.value > 0 THEN "w" ELSE "b")
    ELSE None

ResolveMateFirst(game, evaluation, is_resign) ==
    IF is_resign
    THEN (IF game.orientation = "b" THEN "w" ELSE "b")
    ELSE IF evaluation.end_type = "checkmate"
    THEN (IF evaluation.value > 0 THEN "w" ELSE "b")
    ELSE IF evaluation.is_end
    THEN evaluation.who_win
    ELSE None

ResolveZeroToWhite(game, evaluation, is_resign) ==
    IF is_resign
    THEN (IF game.orientation = "b" THEN "w" ELSE "b")
    ELSE IF evaluation.is_end
    THEN evaluation.who_win
    ELSE IF evaluation.end_type = "checkmate"
    THEN (IF evaluation.value >= 0 THEN "w" ELSE "b")
    ELSE None

\* A faulty variant: the player who resigns is taken to play White
ResolveResignAsWhite(game, evaluation, is_resign) ==
    IF is_resign
    THEN "b"
    ELSE IF evaluation.is_end
    THEN evaluation.who_win
    ELSE IF evaluation.end_type = "checkmate"
    THEN (IF evaluation.value > 0 THEN "w" ELSE "b")
    ELSE None

\* lines 120-127
ResolveWinner(game, evaluation, is_resign) ==
    IF is_resign
    THEN (IF game.orientation = "b" THEN "w" ELSE "b")
    ELSE IF evaluation.is_end
    THEN evaluation.who_win
    ELSE IF evaluation.end_type = "checkmate"
    THEN (IF evaluation.value > 0 THEN "w" ELSE "b")
    ELSE None

\* A faulty variant: the update without the is_active condition
DeactivateGamesOfUser(gs, user_id, who_win) ==
    [i \in DOMAIN gs |->
        IF gs[i].user_id = user_id
        THEN [gs[i] EXCEPT !.is_active = FALSE, !.who_win = who_win]
        ELSE gs[i]]

\* A faulty variant: the update of the Game rows is left out
DeactivateNoGame(gs, user_id, who_win) == gs

\* update(Game).where(user_id, is_active).values(is_active=False, who_win=who_win)
DeactivateGames(gs, user_id, who_win) ==
    [i \in DOMAIN gs |->
        IF gs[i].user_id = user_id /\ gs[i].is_active
        THEN [gs[i] EXCEPT !.is_active = FALSE, !.who_win = who_win]
        ELSE gs[i]]

\* Faulty variants: every game counted as a win; a draw counted in total_games
\* only
RecordOutcomeAsWin(us, user_id, game, who_win) ==
    [us EXCEPT ![user_id] =
        [@ EXCEPT !.total_games = @ + 1, !.total_wins = @ + 1]]

RecordOutcomeWithoutDraws(us, user_id, game, who_win) ==
    [us EXCEPT ![user_id] =
        [@ EXCEPT
            !.total_games = @ + 1,
            !.total_wins = IF game.orientation = who_win THEN @ + 1 ELSE @,
            !.total_defeats =
                IF who_win # None /\ game.orientation # who_win
                THEN @ + 1 ELSE @]]

\* update(User).where(user_id).values(total_games=..., ...), from the row read
\* in the same transaction and the orientation of the game read before the await
RecordOutcome(us, user_id, game, who_win) ==
    LET user == us[user_id] IN
    [us EXCEPT ![user_id] =
        [@ EXCEPT
            !.total_games = user.total_games + 1,
            !.total_wins =
                IF game.orientation = who_win
                THEN user.total_wins + 1 ELSE user.total_wins,
            !.total_defeats =
                IF who_win # None /\ game.orientation # who_win
                THEN user.total_defeats + 1 ELSE user.total_defeats,
            !.total_draws =
                IF who_win = None
                THEN user.total_draws + 1 ELSE user.total_draws]]

Min(a, b) == IF a <= b THEN a ELSE b

Max(a, b) == IF a >= b THEN a ELSE b

\* A faulty variant: the upper limit is not applied
ClampParamsFromBelow(params, limits) ==
    Dict(params.keys,
         [k \in ParamNames |->
            IF k \in limits.keys
            THEN Max(params.val[k], limits.min[k])
            ELSE params.val[k]])

\* lines 214-223: every supplied parameter found in limits is clamped with
\* max(min(value, limits[param]["max"]), limits[param]["min"]); a KeyError
\* leaves the parameter as supplied
ClampParams(params, limits) ==
    Dict(params.keys,
         [k \in ParamNames |->
            IF k \in limits.keys
            THEN Max(Min(params.val[k], limits.max[k]), limits.min[k])
            ELSE params.val[k]])

\* update(Settings).where(user_id).values(**params)
UpdateSettingsRows(st, user_id, params) ==
    IF st[user_id].created
    THEN [st EXCEPT ![user_id].values =
            [k \in ParamNames |->
                IF k \in params.keys THEN params.val[k] ELSE @[k]]]
    ELSE st

\* A faulty variant: the update without the is_active condition
UpdateGamesOfUser(gs, user_id, m) ==
    [i \in DOMAIN gs |->
        IF gs[i].user_id = user_id
        THEN [gs[i] EXCEPT !.prev_moves = m.prev_moves, !.fen = m.fen,
                           !.last_move = m.last_move, !.check = m.check]
        ELSE gs[i]]

\* update(Game).where(user_id, is_active).values(prev_moves=..., fen=..., ...)
UpdateGames(gs, user_id, m) ==
    [i \in DOMAIN gs |->
        IF gs[i].user_id = user_id /\ gs[i].is_active
        THEN [gs[i] EXCEPT !.prev_moves = m.prev_moves, !.fen = m.fen,
                           !.last_move = m.last_move, !.check = m.check]
        ELSE gs[i]]

----------------------------------------------------------------------------
(* Callers *)

\* was_active remembers whether an active row of the user existed when the
\* call was made
Idle ==
    [op |-> "idle", pc |-> "idle", user_id |-> 0, is_resign |-> FALSE,
     orientation |-> None, game |-> NoGame, was_active |-> FALSE,
     params |-> NoParams]

NoRet ==
    [op |-> "none", kind |-> "none", user_id |-> 0, is_resign |-> FALSE,
     evaluation |-> NoEvaluation, who_win |-> None, value |-> FALSE,
     params |-> NoParams]

\* ret.kind: "None" (absent result), "tuple" (evaluation, who_win; is_resign
\* repeats the argument of the call), "bool" (value), "error" (an exception
\* reached the caller; who_win names it), "dict" (params), "none" (the step
\* returned nothing)
Return(p, op, kind, user_id) ==
    [NoRet EXCEPT !.op = op, !.kind = kind, !.user_id = user_id]

InFlight(op) == {p \in Procs : calls[p].op = op}

\* No leaderboard was asked for yet
NoBoard == << >>

NoCache == [cached |-> FALSE, value |-> NoBoard]

StatIdle == [pc |-> "idle", value |-> NoBoard]

NoStatistic ==
    /\ created_time = [u \in Users |-> 0]
    /\ cache = NoCache
    /\ stat = [p \in Procs |-> StatIdle]

Init ==
    /\ users = [u \in Users |-> NoUser]
    /\ settings = [u \in Users |-> NoSettings]
    /\ games = << >>
    /\ calls = [p \in Procs |-> Idle]
    /\ ret = NoRet
    /\ NoStatistic

----------------------------------------------------------------------------
(* create_new_user *)

\* lines 20-28: the user exists: return; otherwise the rows are added to the
\* session and the coroutine suspends in settings.async_init on get_defaults
create_new_user(p, user_id) ==
    /\ calls[p].pc = "idle"
    /\ IF get_user(users, user_id).created
       THEN /\ ret' = Return(p, "create_new_user", "None", user_id)
            /\ UNCHANGED calls
       ELSE /\ calls' = [calls EXCEPT ![p] =
                    [Idle EXCEPT !.op = "create_new_user",
                                 !.pc = "await_defaults", !.user_id = user_id]]
            /\ ret' = NoRet
    /\ UNCHANGED <<users, settings, games>>
    /\ UNCHANGED board_vars

\* lines 28-29 and the commit at the end of the with block: both rows are
\* inserted in one transaction; settings.user_id is unique, so the commit of a
\* second row for the same user fails and the transaction is rolled back
create_new_user_commit(p) ==
    /\ calls[p].pc = "await_defaults"
    /\ LET user_id == calls[p].user_id IN
       IF users[user_id].created \/ settings[user_id].created
       THEN /\ ret' = [Return(p, "create_new_user", "error", user_id)
                          EXCEPT !.who_win = "IntegrityError"]
            /\ UNCHANGED <<users, settings>>
       ELSE /\ users' = [users EXCEPT ![user_id] = NewUser]
            /\ settings' = [settings EXCEPT ![user_id] = NewSettings]
            /\ ret' = Return(p, "create_new_user", "None", user_id)
    /\ calls' = [calls EXCEPT ![p] = Idle]
    /\ UNCHANGED games
    /\ UNCHANGED board_vars

\* get_defaults raises: the exception leaves the with block, nothing is committed
create_new_user_fail(p) ==
    /\ calls[p].pc = "await_defaults"
    /\ ret' = [Return(p, "create_new_user", "error", calls[p].user_id)
                  EXCEPT !.who_win = "UpstreamServiceError"]
    /\ calls' = [calls EXCEPT ![p] = Idle]
    /\ UNCHANGED <<users, settings, games>>
    /\ UNCHANGED board_vars

----------------------------------------------------------------------------
(* stop_current_game and create_new_game *)

\* A faulty variant: the deactivation is committed on its own, so that it
\* stays when the statistics update raises
StopInTwoTransactions(us, gs, user_id, game, who_win) ==
    IF ~get_user(us, user_id).created
    THEN [ok |-> FALSE, users |-> us,
          games |-> DeactivateGames(gs, user_id, who_win)]
    ELSE [ok |-> TRUE,
          users |-> RecordOutcome(us, user_id, game, who_win),
          games |-> DeactivateGames(gs, user_id, who_win)]

\* lines 129-162, one unit of work: deactivate, read the user, write the
\* counters.  A missing user row makes user.total_games raise inside the with
\* block and the unit of work is rolled back.
StopTransaction(us, gs, user_id, game, who_win) ==
    IF ~get_user(us, user_id).created
    THEN [ok |-> FALSE, users |-> us, games |-> gs]
    ELSE [ok |-> TRUE,
          users |-> RecordOutcome(us, user_id, game, who_win),
          games |-> DeactivateGames(gs, user_id, who_win)]

\* lines 115-119: no active game: return None; otherwise suspend on the
\* evaluation of the position read
stop_current_game(p, user_id, is_resign) ==
    /\ calls[p].pc = "idle"
    /\ LET game == get_current_game(games, user_id) IN
       IF game.id = 0
       THEN /\ ret' = Return(p, "stop_current_game", "None", user_id)
            /\ UNCHANGED calls
       ELSE /\ calls' = [calls EXCEPT ![p] =
                    [Idle EXCEPT !.op = "stop_current_game",
                                 !.pc = "await_evaluation",
                                 !.user_id = user_id, !.is_resign = is_resign,
                                 !.game = game,
                                 !.was_active = ActiveIds(games, user_id) # {}]]
            /\ ret' = NoRet
    /\ UNCHANGED <<users, settings, games>>
    /\ UNCHANGED board_vars

\* A faulty variant: every orientation is let through
AnyOrientation(orientation) == TRUE

\* line 41: orientation in ('w', 'b')
ValidOrientation(orientation) == orientation \in {"w", "b"}

\* lines 41-57.  An invalid orientation raises before anything is read.  With
\* no active game stop_current_game returns None without suspending, and the
\* insert follows in the same run.  Otherwise the coroutine suspends inside
\* stop_current_game(user_id, is_resign=True).
create_new_game(p, user_id, orientation) ==
    /\ calls[p].pc = "idle"
    /\ IF ~ValidOrientation(orientation)
       THEN /\ ret' = [Return(p, "create_new_game", "error", user_id)
                          EXCEPT !.who_win = "ValueError"]
            /\ UNCHANGED <<games, calls>>
       ELSE /\ Len(games) + Cardinality(InFlight("create_new_game")) < MaxGames
            /\ LET game == get_current_game(games, user_id) IN
               IF game.id = 0
               THEN /\ games' = Append(games, NewGame(user_id, orientation))
                    /\ ret' = [Return(p, "create_new_game", "bool", user_id)
                                  EXCEPT !.value = FALSE]
                    /\ UNCHANGED calls
               ELSE /\ calls' = [calls EXCEPT ![p] =
                            [Idle EXCEPT !.op = "create_new_game",
                                         !.pc = "await_evaluation",
                                         !.user_id = user_id,
                                         !.is_resign = TRUE,
                                         !.orientation = orientation,
                                         !.game = game,
                                         !.was_active =
                                             ActiveIds(games, user_id) # {}]]
                    /\ ret' = NoRet
                    /\ UNCHANGED games
    /\ UNCHANGED <<users, settings>>
    /\ UNCHANGED board_vars

\* lines 119-164 (and 44-57 for a create_new_game suspended in it): the
\* evaluation arrives, the winner is resolved, the unit of work commits and
\* stop_current_game returns; create_new_game goes on to insert the new row.
evaluation_return(p, evaluation) ==
    /\ calls[p].pc = "await_evaluation"
    /\ LET c == calls[p]
           who_win == ResolveWinner(c.game, evaluation, c.is_resign)
           tx == StopTransaction(users, games, c.user_id, c.game, who_win)
       IN  /\ users' = tx.users
           /\ IF ~tx.ok
              THEN /\ games' = tx.games
                   /\ ret' = [Return(p, c.op, "error", c.user_id)
                                 EXCEPT !.who_win = "AttributeError"]
              ELSE IF c.op = "create_new_game"
              THEN /\ games' = Append(tx.games, NewGame(c.user_id, c.orientation))
                   /\ ret' = [Return(p, c.op, "bool", c.user_id)
                                 EXCEPT !.value = TRUE]
              ELSE /\ games' = tx.games
                   /\ ret' = [Return(p, c.op, "tuple", c.user_id)
                                 EXCEPT !.is_resign = c.is_resign,
                                        !.evaluation = evaluation,
                                        !.who_win = who_win]
    /\ calls' = [calls EXCEPT ![p] = Idle]
    /\ UNCHANGED settings
    /\ UNCHANGED board_vars

\* A faulty variant: a failed evaluation is swallowed and the game closed
\* without a winner
evaluation_fail_closing(p) ==
    /\ calls[p].pc = "await_evaluation"
    /\ games' = DeactivateGames(games, calls[p].user_id, None)
    /\ ret' = [Return(p, calls[p].op, "error", calls[p].user_id)
                  EXCEPT !.who_win = "UpstreamServiceError"]
    /\ calls' = [calls EXCEPT ![p] = Idle]
    /\ UNCHANGED <<users, settings>>
    /\ UNCHANGED board_vars

\* get_engine_evaluation raises (line 119): the exception reaches the caller
evaluation_fail(p) ==
    /\ calls[p].pc = "await_evaluation"
    /\ ret' = [Return(p, calls[p].op, "error", calls[p].user_id)
                  EXCEPT !.who_win = "UpstreamServiceError"]
    /\ calls' = [calls EXCEPT ![p] = Idle]
    /\ UNCHANGED <<users, settings, games>>
    /\ UNCHANGED board_vars

\* The unit of work of lines 129-162 aborts (or the process dies inside it):
\* it is rolled back as a whole and the exception reaches the caller
transaction_abort(p) ==
    /\ calls[p].pc = "await_evaluation"
    /\ ret' = [Return(p, calls[p].op, "error", calls[p].user_id)
                  EXCEPT !.who_win = "TransactionFailure"]
    /\ calls' = [calls EXCEPT ![p] = Idle]
    /\ UNCHANGED <<users, settings, games>>
    /\ UNCHANGED board_vars

\* lines 186-201, no await: one uninterrupted run
update_current_game(p, user_id, m) ==
    /\ calls[p].pc = "idle"
    /\ IF get_current_game(games, user_id).id = 0
       THEN /\ ret' = Return(p, "update_current_game", "None", user_id)
            /\ UNCHANGED games
       ELSE /\ games' = UpdateGames(games, user_id, m)
            /\ ret' = [Return(p, "update_current_game", "bool", user_id)
                          EXCEPT !.value = TRUE]
    /\ UNCHANGED <<users, settings, calls>>
    /\ UNCHANGED board_vars

----------------------------------------------------------------------------
(* update_settings *)

\* line 213: the coroutine suspends on get_limits at once
update_settings(p, user_id, params) ==
    /\ calls[p].pc = "idle"
    /\ calls' = [calls EXCEPT ![p] =
            [Idle EXCEPT !.op = "update_settings", !.pc = "await_limits",
                         !.user_id = user_id, !.params = params]]
    /\ ret' = NoRet
    /\ UNCHANGED <<users, settings, games>>
    /\ UNCHANGED board_vars

\* lines 214-233: clamp, one update of the user's settings row, return params
limits_return(p, limits) ==
    /\ calls[p].pc = "await_limits"
    /\ LET params == ClampParams(calls[p].params, limits) IN
       /\ settings' = UpdateSettingsRows(settings, calls[p].user_id, params)
       /\ ret' = [Return(p, "update_settings", "dict", calls[p].user_id)
                     EXCEPT !.params = params]
    /\ calls' = [calls EXCEPT ![p] = Idle]
    /\ UNCHANGED <<users, games>>
    /\ UNCHANGED board_vars

\* get_limits raises: the exception reaches the caller
limits_fail(p) ==
    /\ calls[p].pc = "await_limits"
    /\ ret' = [Return(p, "update_settings", "error", calls[p].user_id)
                  EXCEPT !.who_win = "UpstreamServiceError"]
    /\ calls' = [calls EXCEPT ![p] = Idle]
    /\ UNCHANGED <<users, settings, games>>
    /\ UNCHANGED board_vars

----------------------------------------------------------------------------

(* tg/handlers/game.py: the resign button *)

\* game.py line 38: stop_game calls stop_current_game(user_id), is_resign left
\* at its default False
stop_game(p, user_id) == stop_current_game(p, user_id, FALSE)

\* game.py lines 256-267: without the confirmation the handler asks "are you
\* sure" and returns; with it the handler ends the game through stop_game
resign(p, user_id, is_sure) ==
    IF ~is_sure
    THEN /\ calls[p].pc = "idle"
         /\ ret' = Return(p, "resign", "reply", user_id)
         /\ UNCHANGED <<users, settings, games, calls>>
         /\ UNCHANGED board_vars
    ELSE stop_game(p, user_id)

----------------------------------------------------------------------------
(* get_global_statistic *)

\* Config.GLOBAL_TOP: the number of users listed
GlobalTop == 1

\* line 260: round(total_wins / (total_games or 1) * 100), round() taking a
\* half to the even neighbour
WinRate(user) ==
    LET d == IF user.total_games = 0 THEN 1 ELSE user.total_games
        q == (user.total_wins * 100) \div d
        r == (user.total_wins * 100) % d
    IN  IF 2 * r < d THEN q
        ELSE IF 2 * r > d THEN q + 1
        ELSE IF q % 2 = 0 THEN q ELSE q + 1

\* lines 257-261: what a line of the message shows
BoardLine(us, user_id) ==
    [user_id |-> user_id,
     total_wins |-> us[user_id].total_wins,
     total_draws |-> us[user_id].total_draws,
     total_defeats |-> us[user_id].total_defeats,
     total_games |-> us[user_id].total_games,
     win_rate |-> WinRate(us[user_id])]

\* A faulty variant: ties are broken by the later created_time
AheadLatestFirst(us, ct, u, v) ==
    \/ us[u].total_wins > us[v].total_wins
    \/ us[u].total_wins = us[v].total_wins /\ ct[u] > ct[v]

\* lines 243-245: order_by(desc(total_wins), created_time) puts u before v
Ahead(us, ct, u, v) ==
    \/ us[u].total_wins > us[v].total_wins
    \/ us[u].total_wins = us[v].total_wins /\ ct[u] < ct[v]

\* The orders in which the select may hand back the User rows: rows equal in
\* total_wins and created_time come in any order
Orderings(us, ct) ==
    LET rows == {u \in Users : us[u].created}
        n == Cardinality(rows)
    IN  {seq \in [1..n -> rows] :
            /\ \A i, j \in 1..n : i # j => seq[i] # seq[j]
            /\ \A i, j \in 1..n : i < j => ~Ahead(us, ct, seq[j], seq[i])}

\* lines 243-262: the first GLOBAL_TOP rows of the select, one line each
Leaderboards(us, ct) ==
    {[i \in 1..Min(GlobalTop, Len(seq)) |-> BoardLine(us, seq[i])] :
        seq \in Orderings(us, ct)}

\* line 236, @cached: the call first asks the cache and suspends on it
get_global_statistic(p) ==
    /\ stat[p].pc = "idle"
    /\ stat' = [stat EXCEPT ![p] = [pc |-> "await_cache_get", value |-> NoBoard]]
    /\ ret' = NoRet
    /\ UNCHANGED <<users, settings, games, calls, created_time, cache>>

\* The cache answers.  A value found is returned; otherwise the body of
\* get_global_statistic (lines 242-269, no await in it) computes the message
\* and the decorator suspends on storing it
cache_get_return(p) ==
    /\ stat[p].pc = "await_cache_get"
    /\ IF cache.cached
       THEN /\ stat' = [stat EXCEPT ![p] = [pc |-> "idle", value |-> cache.value]]
            /\ ret' = Return(p, "get_global_statistic", "str", 0)
       ELSE /\ \E board \in Leaderboards(users, created_time) :
                    stat' = [stat EXCEPT ![p] =
                                [pc |-> "await_cache_set", value |-> board]]
            /\ ret' = NoRet
    /\ UNCHANGED <<users, settings, games, calls, created_time, cache>>

\* The message is stored for ttl = Config.CACHE_GLOBAL_TOP seconds and
\* returned to the caller
cache_set_return(p) ==
    /\ stat[p].pc = "await_cache_set"
    /\ cache' = [cached |-> TRUE, value |-> stat[p].value]
    /\ stat' = [stat EXCEPT ![p].pc = "idle"]
    /\ ret' = Return(p, "get_global_statistic", "str", 0)
    /\ UNCHANGED <<users, settings, games, calls, created_time>>

\* ttl seconds after it was stored the entry is dropped
cache_expire ==
    /\ cache.cached
    /\ cache' = NoCache
    /\ ret' = NoRet
    /\ UNCHANGED <<users, settings, games, calls, created_time, stat>>

----------------------------------------------------------------------------

\* Every call and every resumption, for callers P acting for users U, with
\* stop_current_game called with is_resign from R, the evaluation service
\* answering from E and the moves played drawn from M
Step(P, U, R, E, M) ==
    \/ \E p \in P, u \in U : create_new_user(p, u)
    \/ \E p \in P : create_new_user_commit(p)
    \/ \E p \in P : create_new_user_fail(p)
    \/ \E p \in P, u \in U, r \in R : stop_current_game(p, u, r)
    \/ \E p \in P, u \in U, o \in Orientations : create_new_game(p, u, o)
    \/ \E p \in P, e \in E : evaluation_return(p, e)
    \/ \E p \in P : evaluation_fail(p)
    \/ \E p \in P : transaction_abort(p)
    \/ \E p \in P, u \in U, m \in M : update_current_game(p, u, m)

\* Every call and every resumption of update_settings, called with params
\* from S while the limits service answers from L
SettingsStep(P, U, S, L) ==
    \/ \E p \in P, u \in U, params \in S : update_settings(p, u, params)
    \/ \E p \in P, limits \in L : limits_return(p, limits)
    \/ \E p \in P : limits_fail(p)

\* Concurrent handlers of one user (one chat): the races of the event loop.
\* The handlers stop a game with stop_current_game(user_id), is_resign left at
\* its default; resignation semantics come in through create_new_game.
Next == Step(Procs, RaceUsers, {FALSE}, RaceVerdicts, Moves)

Spec == Init /\ [][Next]_vars

\* One handler at a time: the calls as a caller alone sees them, for any user
NextSeq == Step(SeqProcs, Users, BOOLEAN, Verdicts, Moves)

SpecSeq == Init /\ [][NextSeq]_vars

\* Every operation of the module, settings included, interleaved by two callers
NextAll ==
    \/ Step(Procs, RaceUsers, {FALSE}, RaceVerdicts, Moves)
    \/ SettingsStep(SeqProcs, RaceUsers, SessionParams, SessionLimits)

SpecAll == Init /\ [][NextAll]_vars

\* update_settings over every call and every limits response: user 1 has a
\* settings row, user 2 has none
ParamValues == {0, 3, 9}
LimitValues == {1, 5}

ParamsInputs ==
    {Dict(keys, val) : keys \in (SUBSET ParamNames) \ {{}},
                       val \in [ParamNames -> ParamValues]}

LimitsInputs ==
    {Limits(keys, min, max) : keys \in SUBSET ParamNames,
                              min \in [ParamNames -> LimitValues],
                              max \in [ParamNames -> LimitValues]}

InitSettings ==
    /\ users = [u \in Users |-> IF u = 1 THEN NewUser ELSE NoUser]
    /\ settings = [u \in Users |-> IF u = 1 THEN NewSettings ELSE NoSettings]
    /\ games = << >>
    /\ calls = [p \in Procs |-> Idle]
    /\ ret = NoRet
    /\ NoStatistic

NextSettings == SettingsStep(SeqProcs, Users, ParamsInputs, LimitsInputs)

SpecSettings == InitSettings /\ [][NextSettings]_vars

\* The leaderboard over tables of users: user 1 and possibly user 2 exist,
\* new or with games on record, created at the same time or one after the
\* other; two callers ask for the leaderboard
CreatedTimes == {<<1, 2>>, <<2, 1>>, <<1, 1>>}

InitBoard ==
    /\ \E row1 \in {NewUser, Veteran}, row2 \in {NoUser, NewUser, Veteran} :
            users = [u \in Users |-> IF u = 1 THEN row1 ELSE row2]
    /\ settings = [u \in Users |->
            IF users[u].created THEN NewSettings ELSE NoSettings]
    /\ games = << >>
    /\ calls = [p \in Procs |-> Idle]
    /\ ret = NoRet
    /\ created_time \in CreatedTimes
    /\ cache = NoCache
    /\ stat = [p \in Procs |-> StatIdle]

NextBoard ==
    \/ \E p \in Procs : get_global_statistic(p)
    \/ \E p \in Procs : cache_get_return(p)
    \/ \E p \in Procs : cache_set_return(p)
    \/ cache_expire

SpecBoard == InitBoard /\ [][NextBoard]_vars

\* The resolution of the outcome over every evaluation: user 1, new or with
\* the record of Veteran, has an active game of either orientation, and one
\* caller stops it or starts another game whatever the evaluation service says
InitResolve ==
    /\ \E row \in {NewUser, Veteran} :
            users = [u \in Users |-> IF u = 1 THEN row ELSE NoUser]
    /\ settings = [u \in Users |-> IF u = 1 THEN NewSettings ELSE NoSettings]
    /\ \E o \in Colours : games = <<NewGame(1, o)>>
    /\ calls = [p \in Procs |-> Idle]
    /\ ret = NoRet
    /\ NoStatistic

NextResolve ==
    \/ \E p \in SeqProcs, u \in RaceUsers, r \in BOOLEAN :
            stop_current_game(p, u, r)
    \/ \E p \in SeqProcs, u \in RaceUsers, o \in Orientations :
            create_new_game(p, u, o)
    \/ \E p \in SeqProcs, e \in Evaluations : evaluation_return(p, e)

SpecResolve == InitResolve /\ [][NextResolve]_vars

\* The resign button: user 1, new or with the record of Veteran, has an
\* active game of either orientation and presses the button, with or without
\* the confirmation, whatever the evaluation service says of the position
NextResign ==
    \/ \E p \in SeqProcs, u \in RaceUsers, is_sure \in BOOLEAN :
            resign(p, u, is_sure)
    \/ \E p \in SeqProcs, e \in Evaluations : evaluation_return(p, e)

SpecResign == InitResolve /\ [][NextResign]_vars

----------------------------------------------------------------------------
(* What the claims speak about *)

InactiveIds(gs, user_id) ==
    {i \in DOMAIN gs : gs[i].user_id = user_id /\ ~gs[i].is_active}

Opposite(colour) == IF colour = "w" THEN "b" ELSE "w"

\* Caller p resumes from the await on the evaluation in this step
Resumes(p) == calls[p].pc = "await_evaluation" /\ calls'[p].pc = "idle"

\* The rows of the user that this step turns from active to inactive
Deactivated(user_id) ==
    {i \in DOMAIN games :
        /\ games[i].user_id = user_id /\ games[i].is_active
        /\ ~games'[i].is_active}

----------------------------------------------------------------------------
(* C1 *)

\* C1: in every reachable state every user has at most one Game row with
\* is_active = true, whatever the interleaving of the callers at their awaits.
C1_AtMostOneActive ==
    \A u \in Users : Cardinality(ActiveIds(games, u)) <= 1

\* Two calls of one user overlap: one is still suspended on the evaluation of
\* a row that a create_new_game has deactivated and replaced meanwhile.
C1_Witness ==
    \E p \in Procs :
        /\ calls[p].pc = "await_evaluation"
        /\ ~games[calls[p].game.id].is_active
        /\ Cardinality(ActiveIds(games, calls[p].user_id)) = 1

----------------------------------------------------------------------------
(* C2 *)

\* C2: a create_new_game call that completes leaves exactly one active Game
\* row for the user and returns true iff an active row of that user existed
\* when the call was made.
C2_CreateReportsDisplacement ==
    [][(ret'.op = "create_new_game" /\ ret'.kind = "bool") =>
        LET u == ret'.user_id
            existed ==
                IF \E p \in Procs : Resumes(p)
                THEN \E p \in Procs : Resumes(p) /\ calls[p].was_active
                ELSE ActiveIds(games, u) # {}
        IN  /\ Cardinality(ActiveIds(games', u)) = 1
            /\ ret'.value = existed]_vars

\* A create_new_game has returned true and the user holds the displaced row
\* and the new one.
C2_Witness ==
    /\ ret.op = "create_new_game" /\ ret.kind = "bool" /\ ret.value
    /\ InactiveIds(games, ret.user_id) # {}
    /\ Cardinality(ActiveIds(games, ret.user_id)) = 1

----------------------------------------------------------------------------
(* C3 *)

\* C3: a stop_current_game call that finds an active game and returns adds one
\* to total_games and one to exactly one of total_wins, total_defeats,
\* total_draws: wins iff the winner is the game's orientation, defeats iff a
\* winner is present and differs from it, draws iff the winner is absent.
C3_StopCountsOneOutcome ==
    [][\A p \in Procs :
        (Resumes(p) /\ ret'.op = "stop_current_game" /\ ret'.kind = "tuple") =>
        LET u == calls[p].user_id
            o == games[calls[p].game.id].orientation
            w == ret'.who_win
            One(b) == IF b THEN 1 ELSE 0
        IN  /\ users'[u].total_games = users[u].total_games + 1
            /\ users'[u].total_wins = users[u].total_wins + One(w = o)
            /\ users'[u].total_defeats =
                   users[u].total_defeats + One(w \in Colours /\ w # o)
            /\ users'[u].total_draws = users[u].total_draws + One(w = None)
            /\ One(w = o) + One(w \in Colours /\ w # o) + One(w = None) = 1
            /\ \A v \in Users \ {u} : users'[v] = users[v]]_vars

\* A stop has returned a winner equal to the orientation of the game stopped
\* and the user has a win.
C3_Witness ==
    /\ ret.op = "stop_current_game" /\ ret.kind = "tuple"
    /\ users[ret.user_id].total_wins = 1
    /\ \E i \in InactiveIds(games, ret.user_id) :
            games[i].who_win = ret.who_win /\ games[i].orientation = ret.who_win

----------------------------------------------------------------------------
(* C4 *)

\* C4: in every reachable state the counters of every user are non-negative
\* and total_games = total_wins + total_defeats + total_draws.
C4_CountersAddUp ==
    \A u \in Users :
        /\ users[u].total_wins >= 0
        /\ users[u].total_defeats >= 0
        /\ users[u].total_draws >= 0
        /\ users[u].total_games >= 0
        /\ users[u].total_games =
               users[u].total_wins + users[u].total_defeats + users[u].total_draws

\* A user has a win, a defeat and a draw on record.
C4_Witness ==
    \E u \in Users :
        /\ users[u].total_wins >= 1
        /\ users[u].total_defeats >= 1
        /\ users[u].total_draws >= 1

----------------------------------------------------------------------------
(* C5 *)

\* C5: in every reachable state total_games of every user equals the number of
\* that user's inactive Game rows: every terminated game is counted once.
C5_EveryGameCountedOnce ==
    \A u \in Users :
        users[u].created =>
            users[u].total_games = Cardinality(InactiveIds(games, u))

----------------------------------------------------------------------------
(* C6 *)

\* C6: deactivation and statistics take effect together.  A step that turns a
\* row of a user inactive adds one to that user's total_games; a step that
\* changes the counters of a user leaves the game its call had read inactive;
\* a call that ends in an error inside stop_current_game changes neither.
C6_DeactivationAndStatisticsTogether ==
    [][/\ \A u \in Users :
            Deactivated(u) # {} =>
                users'[u].total_games = users[u].total_games + 1
       /\ \A p \in Procs :
            (Resumes(p) /\ users'[calls[p].user_id] # users[calls[p].user_id]) =>
                /\ ~games'[calls[p].game.id].is_active
                /\ ActiveIds(games, calls[p].user_id) \subseteq
                       Deactivated(calls[p].user_id)
       /\ \A p \in Procs :
            (Resumes(p) /\ ret'.kind = "error") =>
                games' = games /\ users' = users]_vars

\* The unit of work of a stop was rolled back: the game is still active and
\* nothing was counted.
C6_Witness ==
    /\ ret.op = "stop_current_game" /\ ret.kind = "error"
    /\ ret.who_win = "TransactionFailure"
    /\ ActiveIds(games, ret.user_id) # {}
    /\ users[ret.user_id].created
    /\ users[ret.user_id].total_games = Cardinality(InactiveIds(games, ret.user_id))

----------------------------------------------------------------------------
(* C7 *)

\* C7: a stop_current_game with is_resign = true that finds an active game
\* resolves the winner to the colour opposite the game's orientation, whatever
\* the evaluation, stores it as who_win of the game and counts a defeat.
C7_ResignationLoses ==
    [][\A p \in Procs :
        (Resumes(p) /\ calls[p].is_resign /\ ret'.kind \in {"tuple", "bool"}) =>
        LET u == calls[p].user_id
            g == calls[p].game.id
            w == Opposite(games[g].orientation)
        IN  /\ ret'.kind = "tuple" => ret'.who_win = w
            /\ ~games'[g].is_active /\ games'[g].who_win = w
            /\ users'[u].total_defeats = users[u].total_defeats + 1
            /\ users'[u].total_wins = users[u].total_wins
            /\ users'[u].total_draws = users[u].total_draws]_vars

\* The user with counters (3, 1, 0, 4) playing w has resigned a game that the
\* evaluation reports as finished and won by White: the winner is b and the
\* counters are (3, 2, 0, 5).
C7_Witness ==
    /\ ret.op = "stop_current_game" /\ ret.kind = "tuple" /\ ret.is_resign
    /\ ret.evaluation.is_end /\ ret.evaluation.who_win = "w"
    /\ ret.who_win = "b"
    /\ \E i \in InactiveIds(games, ret.user_id) :
            games[i].orientation = "w" /\ games[i].who_win = "b"
    /\ users[ret.user_id] = [Veteran EXCEPT !.total_defeats = 2, !.total_games = 5]

----------------------------------------------------------------------------
(* C8 *)

\* C8: without resignation the winner is the evaluation's who_win when is_end
\* holds (also for end_type checkmate with a value of the other sign), else a
\* colour only for end_type checkmate, else absent; the winner returned is the
\* who_win stored on the deactivated row.
C8_ResolutionPriority ==
    [][\A p \in Procs :
        (Resumes(p) /\ ~calls[p].is_resign /\ ret'.kind = "tuple") =>
        LET e == ret'.evaluation
            w == ret'.who_win
            g == calls[p].game.id
        IN  /\ e.is_end => w = e.who_win
            /\ (~e.is_end /\ e.end_type = "checkmate") => w \in Colours
            /\ (~e.is_end /\ e.end_type # "checkmate") => w = None
            /\ ~games'[g].is_active /\ games'[g].who_win = w]_vars

\* A finished game was returned with the evaluation's winner White although the
\* end type is checkmate and the value is negative.
C8_Witness ==
    /\ ret.op = "stop_current_game" /\ ret.kind = "tuple" /\ ~ret.is_resign
    /\ ret.evaluation.is_end /\ ret.evaluation.end_type = "checkmate"
    /\ ret.evaluation.value < 0 /\ ret.evaluation.who_win = "w"
    /\ ret.who_win = "w"
    /\ \E i \in InactiveIds(games, ret.user_id) : games[i].who_win = "w"

----------------------------------------------------------------------------
(* C9 *)

\* The stops C9 speaks about: no resignation, not terminal, end_type checkmate
C9_MateAnnounced ==
    /\ ret.op = "stop_current_game" /\ ret.kind = "tuple" /\ ~ret.is_resign
    /\ ~ret.evaluation.is_end /\ ret.evaluation.end_type = "checkmate"

\* C9 as stated: the winner is White for a positive value and Black for a
\* negative one, and Black only for a negative value.
C9_BlackOnlyIfNegative ==
    C9_MateAnnounced =>
        /\ ret.evaluation.value > 0 => ret.who_win = "w"
        /\ ret.evaluation.value < 0 => ret.who_win = "b"
        /\ ret.who_win = "b" => ret.evaluation.value < 0

\* C9 as amended: the winner is White for a positive value and Black for
\* every other value, zero included.
C9_WhiteIffPositive ==
    C9_MateAnnounced =>
        /\ ret.evaluation.value > 0 => ret.who_win = "w"
        /\ ret.evaluation.value <= 0 => ret.who_win = "b"

\* value = -7 for a user playing w: winner b, counted as a defeat.
C9_Witness ==
    /\ C9_MateAnnounced
    /\ ret.evaluation.value = -7 /\ ret.who_win = "b"
    /\ \E i \in InactiveIds(games, ret.user_id) :
            games[i].orientation = "w" /\ games[i].who_win = "b"
    /\ users[ret.user_id].total_defeats = 1
    /\ users[ret.user_id].total_games = 1

----------------------------------------------------------------------------
(* C10 *)

\* C10: stop_current_game for a user without an active game returns None and
\* changes no row and no counter; it suspends on the evaluation only when the
\* user has an active game.
C10_StopWithoutGame ==
    [][/\ (ret'.op = "stop_current_game" /\ ret'.kind = "None") =>
            /\ ActiveIds(games, ret'.user_id) = {}
            /\ games' = games /\ users' = users /\ settings' = settings
       /\ \A p \in Procs :
            (calls[p].pc = "idle" /\ calls'[p].op = "stop_current_game") =>
                ActiveIds(games, calls'[p].user_id) # {}]_vars

\* A stop returned None for a user whose only game was stopped before.
C10_Witness ==
    /\ ret.op = "stop_current_game" /\ ret.kind = "None"
    /\ users[ret.user_id].total_games = 1
    /\ InactiveIds(games, ret.user_id) # {}
    /\ ActiveIds(games, ret.user_id) = {}

----------------------------------------------------------------------------
(* C11 *)

\* C11: create_new_game with an orientation other than w or b raises the
\* validation error and changes nothing: no row is inserted, an active game
\* of the user stays as it is, no counter changes; hence no Game row and no
\* create_new_game in flight ever carries such an orientation.
C11_InvalidOrientationRejected ==
    [][/\ (ret'.op = "create_new_game" /\ ret'.kind = "error"
                /\ ret'.who_win = "ValueError") =>
            /\ games' = games /\ users' = users /\ settings' = settings
            /\ calls' = calls
       /\ \A i \in DOMAIN games' : games'[i].orientation \in {"w", "b"}
       /\ \A p \in Procs :
            calls'[p].op = "create_new_game" =>
                calls'[p].orientation \in {"w", "b"}]_vars

\* The validation error was raised for a user who has an active game with
\* moves played and a game on record.
C11_Witness ==
    /\ ret.op = "create_new_game" /\ ret.kind = "error"
    /\ ret.who_win = "ValueError"
    /\ \E i \in ActiveIds(games, ret.user_id) : games[i].prev_moves # 0
    /\ users[ret.user_id].total_games = 1

----------------------------------------------------------------------------
(* C12 *)

\* What C12 says of the step in which update_settings called by p returns
\* after the limits response limits, for the limits entries selected by
\* Entry(min, max): a supplied parameter with such an entry is stored and
\* returned within [min, max], a supplied parameter without an entry is stored
\* and returned as supplied, the dict returned has the keys supplied and holds
\* the values written, and no other column changes.
C12_Clamped(p, limits, Entry(_, _)) ==
    LET c == calls[p]
        u == c.user_id
    IN  /\ ret'.kind = "dict" /\ ret'.params.keys = c.params.keys
        /\ \A k \in ParamNames :
            LET v == ret'.params.val[k] IN
            /\ (k \in c.params.keys /\ k \in limits.keys
                    /\ Entry(limits.min[k], limits.max[k])) =>
                    limits.min[k] <= v /\ v <= limits.max[k]
            /\ (k \in c.params.keys /\ k \notin limits.keys) =>
                    v = c.params.val[k]
            /\ (k \in c.params.keys /\ settings[u].created) =>
                    settings'[u].values[k] = v
            /\ k \notin c.params.keys =>
                    settings'[u].values[k] = settings[u].values[k]

C12_AnyEntry(min, max) == TRUE

C12_ProperEntry(min, max) == min <= max

\* C12 as stated: for every input value and every limits entry the value
\* stored and returned lies within [min, max].
C12_WithinEveryEntry ==
    [][\A p \in Procs, limits \in LimitsInputs :
        limits_return(p, limits) => C12_Clamped(p, limits, C12_AnyEntry)]_vars

\* C12 as amended: the value lies within [min, max] for every limits entry
\* with min <= max; for an entry with min > max the value is min.
C12_WithinProperEntry ==
    [][\A p \in Procs, limits \in LimitsInputs :
        limits_return(p, limits) =>
            /\ C12_Clamped(p, limits, C12_ProperEntry)
            /\ \A k \in calls[p].params.keys \cap limits.keys :
                    limits.min[k] > limits.max[k] =>
                        ret'.params.val[k] = limits.min[k]]_vars

\* An update returned depth lowered to its maximum and elo raised to its
\* minimum, and the settings row holds both.
C12_Witness ==
    /\ ret.op = "update_settings" /\ ret.kind = "dict"
    /\ ret.params.keys = {"depth", "elo"}
    /\ ret.params.val["depth"] = 5 /\ ret.params.val["elo"] = 1
    /\ settings[ret.user_id].created
    /\ settings[ret.user_id].values = ret.params.val

----------------------------------------------------------------------------
(* C13 *)

\* C13: after any create_new_user calls, repeated or overlapping at the await
\* on the defaults, a user has a User row exactly when it has a Settings row,
\* a call that returns leaves both rows in place, and no call raises for a
\* user that already exists: the only error a call can end in is the failure
\* of the defaults service.
C13_EnsureUserIdempotent ==
    /\ \A u \in Users : users[u].created <=> settings[u].created
    /\ (ret.op = "create_new_user" /\ ret.kind = "None") =>
            users[ret.user_id].created /\ settings[ret.user_id].created
    /\ (ret.op = "create_new_user" /\ ret.kind = "error") =>
            ret.who_win = "UpstreamServiceError"

----------------------------------------------------------------------------
(* C14 *)

\* C14: the leaderboard is computed at most once per cache interval, also
\* for callers that arrive together while the cache is empty: no caller holds
\* a newly computed message while a cached one is in force, and no two
\* callers hold a newly computed message at once.
C14_OneComputationPerInterval ==
    Cardinality({p \in Procs : stat[p].pc = "await_cache_set"})
        + (IF cache.cached THEN 1 ELSE 0) <= 1

----------------------------------------------------------------------------
(* C15 *)

\* The created users that the message board does not list
LeftOut(board) ==
    {u \in Users : users[u].created
                    /\ \A i \in 1..Len(board) : board[i].user_id # u}

----------------------------------------------------------------------------
(* C16 *)

----------------------------------------------------------------------------
(* C17 *)

\* C17: when create_new_game displaces an active game, the old row is made
\* inactive with who_win the colour opposite its own orientation, whatever
\* the new orientation and the evaluation, the user's total_games and
\* total_defeats grow by one each, and the new row is inserted after that:
\* it is the only active row and has no winner.
C17_DisplacementIsResignation ==
    [][\A p \in Procs :
        (Resumes(p) /\ calls[p].op = "create_new_game" /\ ret'.kind = "bool") =>
        LET u == calls[p].user_id
            g == calls[p].game.id
            n == Len(games) + 1
        IN  /\ ret'.value
            /\ ~games'[g].is_active
            /\ games'[g].who_win = Opposite(games[g].orientation)
            /\ games'[g].orientation = games[g].orientation
            /\ users'[u].total_games = users[u].total_games + 1
            /\ users'[u].total_defeats = users[u].total_defeats + 1
            /\ users'[u].total_wins = users[u].total_wins
            /\ users'[u].total_draws = users[u].total_draws
            /\ Len(games') = n
            /\ games'[n] = NewGame(u, calls[p].orientation)
            /\ ActiveIds(games', u) = {n}]_vars

\* A game played as Black was displaced by a new game played as White: the
\* old row names White as the winner and the new row is active.
C17_Witness ==
    /\ ret.op = "create_new_game" /\ ret.kind = "bool" /\ ret.value
    /\ Len(games) = 2
    /\ games[1].orientation = "b" /\ ~games[1].is_active
    /\ games[1].who_win = "w"
    /\ games[2].orientation = "w" /\ games[2].is_active
    /\ users[ret.user_id].total_defeats = 1

----------------------------------------------------------------------------
(* C18 *)

\* C18: an inactive Game row is never deleted, reactivated or modified: every
\* step, whichever caller takes it, leaves every inactive row as it is.
C18_InactiveRowsFrozen ==
    [][\A i \in DOMAIN games :
        ~games[i].is_active =>
            i \in DOMAIN games' /\ games'[i] = games[i]]_vars

\* A stop has returned for a user whose earlier game, terminated without
\* moves and with another outcome, is still as it was.
C18_Witness ==
    /\ ret.op = "stop_current_game" /\ ret.kind = "tuple"
    /\ \E i, j \in InactiveIds(games, ret.user_id) :
            /\ i < j
            /\ games[j].who_win = ret.who_win
            /\ games[i].who_win # games[j].who_win
            /\ games[i].prev_moves = 0 /\ games[j].prev_moves = 1

----------------------------------------------------------------------------
(* C19 *)

\* C19: when the evaluation service fails, the failure reaches the caller of
\* stop_current_game or of create_new_game, the call is over (no retry), and
\* no table has changed: the game stays active without a winner, no counter
\* moves and no new row is inserted.
C19_EvaluationFailureChangesNothing ==
    [][\A p \in Procs :
        (Resumes(p) /\ ret'.kind = "error"
                /\ ret'.who_win = "UpstreamServiceError") =>
            /\ ret'.op = calls[p].op /\ ret'.user_id = calls[p].user_id
            /\ calls'[p] = Idle
            /\ games' = games /\ users' = users /\ settings' = settings]_vars

\* The failure reached the caller of create_new_game: the only row of the
\* user is the old game, still active and without a winner.
C19_Witness ==
    /\ ret.op = "create_new_game" /\ ret.kind = "error"
    /\ ret.who_win = "UpstreamServiceError"
    /\ Len(games) = 1 /\ games[1].user_id = ret.user_id
    /\ games[1].is_active /\ games[1].who_win = None
    /\ users[ret.user_id].created /\ users[ret.user_id].total_games = 0

----------------------------------------------------------------------------
(* C20 *)

\* C20: a stop_current_game, alone or inside create_new_game, deactivates no
\* row other than the one it read before the await, also when another call
\* has replaced the active game of the user meanwhile; update_current_game
\* writes on no row other than those active when it checked.
C20_StopTouchesOnlyItsGame ==
    [][/\ \A p \in Procs :
            Resumes(p) =>
                Deactivated(calls[p].user_id) \subseteq {calls[p].game.id}
       /\ ret'.op = "update_current_game" =>
            \A i \in DOMAIN games :
                games'[i] # games[i] => i \in ActiveIds(games, ret'.user_id)]_vars

----------------------------------------------------------------------------
(* C21 *)

\* C21: when the user confirms the resignation in the resign handler, the
\* active game is terminated as a resignation: who_win stored on it is the
\* colour opposite its orientation and the game is counted as a defeat,
\* whatever the evaluation of the position.
C21_ResignHandlerLoses ==
    [][\A p \in Procs :
        (Resumes(p) /\ ret'.kind = "tuple") =>
        LET u == calls[p].user_id
            g == calls[p].game.id
        IN  /\ ~games'[g].is_active
            /\ games'[g].who_win = Opposite(games[g].orientation)
            /\ users'[u].total_defeats = users[u].total_defeats + 1
            /\ users'[u].total_wins = users[u].total_wins
            /\ users'[u].total_draws = users[u].total_draws]_vars

====
